---- MODULE Spec2Model ----
(***************************************************************************)
(* A model of get_tmrw_weather_tool, the weather forecast summarizer of    *)
(* libs/tomorrow_io_client/src/tomorrow_io_client/client.py, and of the    *)
(* message history of the chat application, app.py.                        *)
(*                                                                         *)
(* One invocation is a small state machine: validate the location, issue   *)
(* the HTTP GET, extract timelines.hourly, read the local date, summarize  *)
(* the three windows, assemble the result.  The upstream answer is an      *)
(* arbitrary JSON value, so the Python operations the code applies to it   *)
(* (.get, [], iteration, truthiness, sum, round) are modelled with the     *)
(* exceptions they raise on values of the wrong type.                      *)
(*                                                                         *)
(* Spec is one invocation in a fixed environment.  The other               *)
(* specifications put the same steps in a wider setting: the import of the *)
(* module, a second call, a second thread, a running clock.  AppSpec is    *)
(* the chat application.                                                   *)
(***************************************************************************)
EXTENDS Integers, Sequences, FiniteSets, TLC

VARIABLES
    location,            \* the caller's argument: a sequence of characters
    upstream,            \* what the forecast provider will answer
    local_tz,            \* UTC offset (hours) of the process's local timezone
    now,                 \* the clock: hours elapsed since day 0, 00:00 UTC
    settings,            \* the module-level Settings object
    pc,                  \* position of the invocation
    sanitized_location,  \* local variable
    sent,                \* the HTTP requests issued so far
    data,                \* local variable: the parsed JSON body
    hours,               \* local variable: timelines.hourly
    today_local,         \* local variable: the local calendar date
    periods,             \* the lists built by each summarize_period call
    morning, afternoon, evening,   \* the three period summaries
    result,              \* the returned dict
    exception,           \* the exception that left the function, if any
    previous,            \* how the earlier call of this thread ended
    other,               \* the frame of the thread that is not running
    session_state,       \* app.py: st.session_state
    runner_sessions,     \* app.py: the sessions of the InMemoryRunner
    wall_clock,          \* app.py: time.time(), in seconds
    script               \* app.py: position of the script run

vars == <<location, upstream, local_tz, now, settings, pc, sanitized_location,
          sent, data, hours, today_local, periods, morning, afternoon,
          evening, result, exception, previous, other, session_state,
          runner_sessions, wall_clock, script>>

-----------------------------------------------------------------------------
(* JSON / Python values.  A string that is an ISO-8601 timestamp carries   *)
(* its fields (calendar day, hour, and UTC offset when it has one); any    *)
(* other string carries its text.                                          *)

None == [t |-> "null"]
Unset == [t |-> "unset"]
JNum(n) == [t |-> "num", n |-> n]
JStr(s) == [t |-> "str", iso |-> FALSE, s |-> s]
JIso(day, hour, aware, off) ==
    [t |-> "str", iso |-> TRUE, day |-> day, hour |-> hour, aware |-> aware, off |-> off]
JList(items) == [t |-> "list", items |-> items]
JObj(fields) == [t |-> "obj", fields |-> fields]
EmptyFields == [k \in {} |-> None]
EmptyDict == JObj(EmptyFields)
EmptyList == JList(<<>>)

(* The outcome of a Python expression: a value, or a raised exception.     *)
Ok(v) == [ok |-> TRUE, val |-> v]
Raise(e) == [ok |-> FALSE, exc |-> e]

(* What a variable of the invocation holds once assigned: the characters   *)
(* of a str, a date, the exception that left the function.                 *)
Chars(s) == [t |-> "chars", chars |-> s]
Date(day) == [t |-> "date", day |-> day]
Exc(type) == [t |-> "exception", type |-> type]

(* d.get(key, default): only a dict has .get                               *)
PyGet(v, key, default) ==
    IF v.t = "obj"
    THEN Ok(IF key \in DOMAIN v.fields THEN v.fields[key] ELSE default)
    ELSE Raise("AttributeError")

(* v[key] with a string key                                                *)
PyIndex(v, key) ==
    IF v.t = "obj"
    THEN IF key \in DOMAIN v.fields THEN Ok(v.fields[key]) ELSE Raise("KeyError")
    ELSE Raise("TypeError")

(* bool(v)                                                                 *)
Truthy(v) ==
    CASE v.t = "null" -> FALSE
      [] v.t = "num"  -> v.n # 0
      [] v.t = "str"  -> v.iso \/ v.s # ""
      [] v.t = "list" -> Len(v.items) > 0
      [] v.t = "obj"  -> DOMAIN v.fields # {}
      [] OTHER        -> FALSE

RECURSIVE SetToSeq(_)
SetToSeq(S) ==
    IF S = {} THEN <<>>
    ELSE LET k == CHOOSE k \in S : TRUE IN <<k>> \o SetToSeq(S \ {k})

(* iter(v): a list yields its items, a dict its keys, a string its         *)
(* characters (here: one string per character is enough, none of them is   *)
(* a dict); anything else is not iterable.                                 *)
PyIter(v) ==
    CASE v.t = "list" -> Ok(v.items)
      [] v.t = "obj"  -> Ok([i \in 1..Cardinality(DOMAIN v.fields) |->
                              JStr(SetToSeq(DOMAIN v.fields)[i])])
      [] v.t = "str"  -> Ok(<<JStr("c")>>)
      [] OTHER        -> Raise("TypeError")

-----------------------------------------------------------------------------
(* datetime                                                                *)

(* datetime.fromisoformat(v)                                               *)
FromIsoFormat(v) ==
    IF v.t # "str" THEN Raise("TypeError")
    ELSE IF ~v.iso THEN Raise("ValueError")
    ELSE Ok([day |-> v.day, hour |-> v.hour, aware |-> v.aware, off |-> v.off])

Today == 2                      \* the local calendar day of the runs

(* The calendar: datetime.min is 0:00 of MinDay and datetime.max is in the *)
(* last hour of MaxDay (0001-01-01 and 9999-12-31, brought to two days     *)
(* from today).  A wall-clock reading is counted in hours.                 *)
MinDay == Today - 2
MaxDay == Today + 2
InCalendar(wall) == MinDay * 24 <= wall /\ wall <= MaxDay * 24 + 23

(* A variant of AsTimezone that relabels the offset and keeps the clock    *)
AsTimezoneKeepingClock(dt, tz, system_tz) ==
    Ok([day |-> dt.day, hour |-> dt.hour, aware |-> TRUE, off |-> tz])

(* dt.astimezone(tz): a naive datetime is taken to be in the system's      *)
(* local timezone; the instant is kept and expressed at offset tz.  The    *)
(* subtraction of the source offset and the addition of the target offset  *)
(* are datetime arithmetic: a reading outside the calendar is an           *)
(* OverflowError.  (For a naive datetime at the edge of the calendar the   *)
(* platform's local-time rules decide between ValueError and               *)
(* OverflowError; the inputs hold none.)                                   *)
AsTimezone(dt, tz, system_tz) ==
    LET instant == dt.day * 24 + dt.hour
                   - (IF dt.aware THEN dt.off ELSE system_tz)
        shifted == instant + tz
    IN IF ~InCalendar(instant) \/ ~InCalendar(shifted)
       THEN Raise("OverflowError")
       ELSE Ok([day |-> shifted \div 24, hour |-> shifted % 24,
                aware |-> TRUE, off |-> tz])

(* datetime.now(local_tz).date()                                           *)
LocalDate(clock, tz) == (clock + tz) \div 24

-----------------------------------------------------------------------------
(* summarize_period                                                        *)

(* range(start, stop)                                                      *)
morning_hours == [start |-> 8, stop |-> 12]
afternoon_hours == [start |-> 12, stop |-> 17]
evening_hours == [start |-> 17, stop |-> 22]

(* A variant of InRange that takes the stop hour in                        *)
InRangeInclusive(h, r) == r.start <= h /\ h <= r.stop

(* h in range(start, stop)                                                 *)
InRange(h, r) == r.start <= h /\ h < r.stop

RECURSIVE SumNums(_)
SumNums(s) == IF s = <<>> THEN 0 ELSE Head(s).n + SumNums(Tail(s))

(* sum(xs): 0 + x1 + x2 + ...; only numbers can be added to an int         *)
PySum(xs) ==
    IF \A i \in 1..Len(xs) : xs[i].t = "num"
    THEN Ok(SumNums(xs))
    ELSE Raise("TypeError")

(* Variants of PyRound: a tie taken upwards, and the floor                 *)
PyRoundHalfUp(num, den) == (2 * num + den) \div (2 * den)
PyRoundFloor(num, den) == num \div den

(* round(num / den) for den > 0: Python 3 rounds to the nearest integer    *)
(* and a tie (x.5) to the even neighbour.                                  *)
PyRound(num, den) ==
    LET q == num \div den
        r == num - q * den
    IN IF 2 * r < den THEN q
       ELSE IF 2 * r > den THEN q + 1
       ELSE IF q % 2 = 0 THEN q ELSE q + 1

(* A variant of CloudDesc whose thresholds belong to the lower label       *)
CloudDescInclusive(avg_cloud) ==
    IF avg_cloud <= 20 THEN "sunny"
    ELSE IF avg_cloud <= 50 THEN "partly cloudy"
    ELSE "cloudy"

(* the if/elif/else on avg_cloud                                           *)
CloudDesc(avg_cloud) ==
    IF avg_cloud < 20 THEN "sunny"
    ELSE IF avg_cloud < 50 THEN "partly cloudy"
    ELSE "cloudy"

(* f"Avg {avg_temp}F, {avg_prec}% rain chance, {cloud_desc}"               *)
PeriodLine(avg_temp, avg_prec, cloud_desc) ==
    "Avg " \o ToString(avg_temp) \o "F, " \o ToString(avg_prec)
           \o "% rain chance, " \o cloud_desc

(* A variant of NoLists: lists made once and kept from call to call, so    *)
(* that a call starts with those the earlier call filled last              *)
ListsOfEarlierCall ==
    IF previous = Unset \/ previous.periods.evening = Unset
    THEN [temps |-> <<>>, prec_probs |-> <<>>, clouds |-> <<>>, counted |-> <<>>]
    ELSE previous.periods.evening.lists

(* The three lists summarize_period builds.  "counted" is bookkeeping the  *)
(* code does not keep: the positions, in hourly_data, of the entries whose *)
(* values were appended.                                                   *)
NoLists == [temps |-> <<>>, prec_probs |-> <<>>, clouds |-> <<>>, counted |-> <<>>]

(* Sequencing of two Python expressions: the second is evaluated with the  *)
(* value of the first unless the first raised.  (The first is evaluated    *)
(* once, as the single element x of {r}.)                                  *)
Then(r, F(_)) == CHOOSE y \in {IF x.ok THEN F(x.val) ELSE x : x \in {r}} : TRUE

(* An except clause: the listed exceptions are replaced by a value.        *)
Except(r, caught, v) ==
    CHOOSE y \in {IF ~x.ok /\ x.exc \in caught THEN Ok(v) ELSE x : x \in {r}} : TRUE

(* A variant of ParseEntry that reads entry["values"]                      *)
ParseEntryRequiringValues(entry, tz) ==
    Then(PyIndex(entry, "time"), LAMBDA time :
    Then(FromIsoFormat(time), LAMBDA dt :
    Then(AsTimezone(dt, 0, tz), LAMBDA dt_utc :
    Then(AsTimezone(dt_utc, tz, tz), LAMBDA dt_local :
    Then(PyIndex(entry, "values"), LAMBDA values :
        Ok([dt_local |-> dt_local, values |-> values]))))))

(* The try block of the loop body (lines 164-166): the entry's local       *)
(* datetime and its values, or the exception raised on the way.            *)
ParseEntry(entry, tz) ==
    Then(PyIndex(entry, "time"), LAMBDA time :
    Then(FromIsoFormat(time), LAMBDA dt :
    Then(AsTimezone(dt, 0, tz), LAMBDA dt_utc :
    Then(AsTimezone(dt_utc, tz, tz), LAMBDA dt_local :
    Then(PyGet(entry, "values", EmptyDict), LAMBDA values :
        Ok([dt_local |-> dt_local, values |-> values]))))))

(* A variant of Appended that drops an entry lacking one of the metrics    *)
AppendedWhenComplete(values, i, acc) ==
    Except(Then(PyIndex(values, "temperature"), LAMBDA temp :
           Then(PyIndex(values, "precipitationProbability"), LAMBDA prec :
           Then(PyIndex(values, "cloudCover"), LAMBDA cloud :
               Ok([temps |-> Append(acc.temps, temp),
                   prec_probs |-> Append(acc.prec_probs, prec),
                   clouds |-> Append(acc.clouds, cloud),
                   counted |-> Append(acc.counted, i)])))),
           {"KeyError"}, acc)

(* Lines 172-174: the three appends                                        *)
Appended(values, i, acc) ==
    Then(PyGet(values, "temperature", JNum(0)), LAMBDA temp :
    Then(PyGet(values, "precipitationProbability", JNum(0)), LAMBDA prec :
    Then(PyGet(values, "cloudCover", JNum(0)), LAMBDA cloud :
        Ok([temps |-> Append(acc.temps, temp),
            prec_probs |-> Append(acc.prec_probs, prec),
            clouds |-> Append(acc.clouds, cloud),
            counted |-> Append(acc.counted, i)]))))

(* Lines 169-174: the date and hour filters on a parsed entry              *)
Filtered(e, i, hour_range, today, acc) ==
    IF e.dt_local.day # today THEN Ok(acc)
    ELSE IF ~InRange(e.dt_local.hour, hour_range) THEN Ok(acc)
    ELSE Appended(e.values, i, acc)

(* A variant of Skipped whose except clause omits ValueError               *)
SkippedUnlessValueError(parsed) ==
    ~parsed.ok /\ parsed.exc \in {"KeyError", "TypeError"}

(* One iteration of the for loop: the lists after the entry, or the        *)
(* exception that leaves the loop.  The except clause of line 167 skips    *)
(* the entry.                                                              *)
Skipped(parsed) ==
    ~parsed.ok /\ parsed.exc \in {"ValueError", "KeyError", "TypeError"}

EntryOutcome(parsed, i, hour_range, today, acc) ==
    IF Skipped(parsed) THEN Ok(acc)
    ELSE Then(parsed, LAMBDA e : Filtered(e, i, hour_range, today, acc))

EntryStep(entry, i, hour_range, tz, today, acc) ==
    EntryOutcome(ParseEntry(entry, tz), i, hour_range, today, acc)

(* The for loop from its i-th item on                                      *)
RECURSIVE Loop(_, _, _, _, _, _)
Loop(items, i, hour_range, tz, today, acc) ==
    IF i > Len(items) THEN Ok(acc)
    ELSE Then(EntryStep(items[i], i, hour_range, tz, today, acc),
              LAMBDA next : Loop(items, i + 1, hour_range, tz, today, next))

(* Lines 180-186 with the three averages                                   *)
Described(lists, avg_temp, avg_prec, avg_cloud) ==
    Ok([line |-> JStr(PeriodLine(avg_temp, avg_prec, CloudDesc(avg_cloud))),
        lists |-> lists,
        avg_temp |-> avg_temp, avg_prec |-> avg_prec, avg_cloud |-> avg_cloud,
        cloud_desc |-> CloudDesc(avg_cloud)])

(* Lines 175-186: None for empty lists, else the averages and the line     *)
Averaged(lists) ==
    IF lists.temps = <<>> THEN Ok([line |-> None, lists |-> lists])
    ELSE Then(PySum(lists.temps), LAMBDA st :
         Then(PySum(lists.prec_probs), LAMBDA sp :
         Then(PySum(lists.clouds), LAMBDA sc :
             Described(lists, PyRound(st, Len(lists.temps)),
                              PyRound(sp, Len(lists.prec_probs)),
                              PyRound(sc, Len(lists.clouds))))))

(* summarize_period(hourly_data, hour_range): the returned line (None when *)
(* no entry was appended) with the function's locals, or the exception.    *)
summarize_period(hourly_data, hour_range, tz, today) ==
    Then(PyIter(hourly_data), LAMBDA items :
    Then(Loop(items, 1, hour_range, tz, today, NoLists), LAMBDA lists :
        Averaged(lists)))

-----------------------------------------------------------------------------
(* The location argument and the request                                   *)

MaxLocationLen == 256

Letters == {"a","b","c","d","e","f","g","h","i","j","k","l","m","n","o","p","q",
            "r","s","t","u","v","w","x","y","z",
            "A","B","C","D","E","F","G","H","I","J","K","L","M","N","O","P","Q",
            "R","S","T","U","V","W","X","Y","Z"}
Digits == {"0","1","2","3","4","5","6","7","8","9"}
Whitespace == {" ", "\t", "\n", "\r"}

(* The characters the class [^a-zA-Z0-9\s,'-.] does not match: letters,    *)
(* digits, whitespace, the comma, and the range from ' to . of the ASCII   *)
(* table, which is ' ( ) * + , - .                                         *)
KeptChars == Letters \cup Digits \cup Whitespace \cup {","}
                     \cup {"'", "(", ")", "*", "+", ",", "-", "."}

(* re.sub(r"[^a-zA-Z0-9\s,'-.]", "", location)                             *)
Sanitize(loc) ==
    LET Kept(c) == c \in KeptChars
    IN SelectSeq(loc, Kept)

(* The query-string form of one character (urlencode)                      *)
UrlEncodeChar(c) ==
    IF c \in Letters \cup Digits \cup {"-", ".", "_", "~"} THEN c
    ELSE CASE c = " "  -> "+"
           [] c = ","  -> "%2C"
           [] c = "'"  -> "%27"
           [] c = "("  -> "%28"
           [] c = ")"  -> "%29"
           [] c = "*"  -> "%2A"
           [] c = "+"  -> "%2B"
           [] c = "\t" -> "%09"
           [] c = "\n" -> "%0A"
           [] c = "\r" -> "%0D"
           [] OTHER    -> "%3F"

RECURSIVE UrlEncodeRange(_, _, _)
UrlEncodeRange(s, lo, hi) ==
    IF lo > hi THEN ""
    ELSE IF lo = hi THEN UrlEncodeChar(s[lo])
    ELSE LET mid == (lo + hi) \div 2
         IN UrlEncodeRange(s, lo, mid) \o UrlEncodeRange(s, mid + 1, hi)

UrlEncode(s) == UrlEncodeRange(s, 1, Len(s))

(* Settings: the credential, a string given as its characters, and the     *)
(* base URL                                                                *)
WordChars == Letters \cup Digits \cup {"_"}
MinKeyLen == 32

(* re.match(r"^[a-zA-Z0-9_]{32,}$", api_key): the pattern's $ matches at   *)
(* the end of the string and also just before a newline that ends it.      *)
MatchesKeyPattern(api_key) ==
    \E m \in {Len(api_key), Len(api_key) - 1} :
        /\ m >= MinKeyLen
        /\ \A i \in 1..m : api_key[i] \in WordChars
        /\ m = Len(api_key) \/ api_key[Len(api_key)] = "\n"

validate_api_key(v) ==
    IF MatchesKeyPattern(v) THEN Ok(v) ELSE Raise("ValueError")

(* Settings(): the object, or the ValidationError pydantic makes of the    *)
(* validator's ValueError                                                  *)
Settings(api_key) ==
    IF validate_api_key(api_key).ok
    THEN Ok([tomorrow_io_api_key |-> api_key,
             base_url |-> "https://api.tomorrow.io/v4/weather/forecast"])
    ELSE Raise("ValidationError")

(* params of the GET, s the settings                                       *)
Params(s, sanitized) ==
    [location |-> sanitized, timesteps |-> "1h", units |-> "imperial",
     apikey |-> s.tomorrow_io_api_key]

(* The URL requests builds from base_url and params                        *)
RequestUrl(s, sanitized) ==
    s.base_url \o "?location=" \o UrlEncode(sanitized)
        \o "&timesteps=1h&units=imperial&apikey=" \o UrlEncode(s.tomorrow_io_api_key)

(* response.raise_for_status() raises for 4xx and 5xx                      *)
RaisesForStatus(status_code) == 400 <= status_code /\ status_code < 600

(* str(e) of the HTTPError raise_for_status raises                         *)
HttpErrorText(status_code, reason, url) ==
    ToString(status_code)
        \o (IF status_code < 500 THEN " Client Error: " ELSE " Server Error: ")
        \o reason \o " for url: " \o url

(* The timeout of the GET: line 125 passes none, and the default of        *)
(* requests.get is None, which waits for the answer without limit.         *)
Timeout == None

(* The call does not return: the provider stays silent and nothing bounds  *)
(* the wait.                                                               *)
Blocks(up) == up.kind = "silent" /\ Timeout = None

(* requests.get(...), raise_for_status(), response.json(): the parsed body *)
(* or the text of the RequestException.                                    *)
Fetch(s, up, sanitized) ==
    IF up.kind = "silent" THEN [ok |-> FALSE, msg |-> "Read timed out."]
    ELSE IF up.kind = "exception" THEN [ok |-> FALSE, msg |-> up.msg]
    ELSE IF RaisesForStatus(up.status_code)
    THEN [ok |-> FALSE,
          msg |-> HttpErrorText(up.status_code, up.reason, RequestUrl(s, sanitized))]
    ELSE IF ~up.is_json
    THEN [ok |-> FALSE, msg |-> "Expecting value: line 1 column 1 (char 0)"]
    ELSE [ok |-> TRUE, body |-> up.body]

(* data.get("timelines", {}).get("hourly", []) in its try block            *)
ExtractHours(d) ==
    Except(Then(PyGet(d, "timelines", EmptyDict),
                LAMBDA timelines : PyGet(timelines, "hourly", EmptyList)),
           {"KeyError", "TypeError"}, EmptyList)

(* A variant of ErrorResult that puts the message in the forecast too      *)
ErrorResultWithText(msg, loc) ==
    [status |-> "error", error_message |-> msg, location |-> loc,
     forecast |-> JStr(msg)]

ErrorResult(msg, loc) ==
    [status |-> "error", error_message |-> msg, location |-> loc, forecast |-> None]

(* A variant of SuccessResult that echoes the sanitized location           *)
SuccessResultSanitized(text, loc) ==
    [status |-> "success", forecast |-> JStr(text), location |-> Sanitize(loc)]

SuccessResult(text, loc) ==
    [status |-> "success", forecast |-> JStr(text), location |-> loc]

RECURSIVE Join(_, _)
Join(parts, sep) ==
    IF parts = <<>> THEN ""
    ELSE IF Len(parts) = 1 THEN parts[1]
    ELSE parts[1] \o sep \o Join(Tail(parts), sep)

(* A variant of SummaryParts that lists the windows latest first           *)
SummaryPartsLatestFirst(m, a, e) ==
    (IF Truthy(e) THEN <<"Evening (5pm-10pm): " \o e.s>> ELSE <<>>)
    \o (IF Truthy(a) THEN <<"Afternoon (12pm-5pm): " \o a.s>> ELSE <<>>)
    \o (IF Truthy(m) THEN <<"Morning (8am-12pm): " \o m.s>> ELSE <<>>)

(* summary_parts                                                           *)
SummaryParts(m, a, e) ==
    (IF Truthy(m) THEN <<"Morning (8am-12pm): " \o m.s>> ELSE <<>>)
    \o (IF Truthy(a) THEN <<"Afternoon (12pm-5pm): " \o a.s>> ELSE <<>>)
    \o (IF Truthy(e) THEN <<"Evening (5pm-10pm): " \o e.s>> ELSE <<>>)

(* The tail of get_tmrw_weather_tool, from summary_parts to the return     *)
Forecast(summary_parts, loc) ==
    IF summary_parts = <<>>
    THEN ErrorResult("No forecast data available for today.", loc)
    ELSE SuccessResult("Today's forecast - " \o Join(summary_parts, ". ") \o ".", loc)

Assembled(m, a, e, loc) == Forecast(SummaryParts(m, a, e), loc)

(* Lines 188-190: the three period summaries, or the exception of the     *)
(* first call that raises.                                                 *)
Summaries(h, tz, today) ==
    Then(summarize_period(h, morning_hours, tz, today), LAMBDA m :
    Then(summarize_period(h, afternoon_hours, tz, today), LAMBDA a :
    Then(summarize_period(h, evening_hours, tz, today), LAMBDA e :
        Ok(<<m.line, a.line, e.line>>))))

(* Lines 142-219: what get_tmrw_weather_tool does with a value of hours:   *)
(* the returned dict, or the exception that leaves the function.           *)
FromHours(h, tz, today, loc) ==
    IF ~Truthy(h)
    THEN Ok(ErrorResult("No hourly weather data available.", loc))
    ELSE Then(Summaries(h, tz, today),
              LAMBDA s : Ok(Assembled(s[1], s[2], s[3], loc)))

(* Lines 123-219 with the outcome r of the request                          *)
FromFetch(r, tz, clock, loc) ==
    IF ~r.ok THEN Ok(ErrorResult(r.msg, loc))
    ELSE Then(ExtractHours(r.body),
              LAMBDA h : FromHours(h, tz, LocalDate(clock, tz), loc))

(* get_tmrw_weather_tool(location) as one expression of its argument and   *)
(* of what it reads: the provider's answer, the local timezone, the clock, *)
(* the settings.  (A provider that stays silent gives no value: see        *)
(* Blocks.)                                                                *)
get_tmrw_weather_tool(loc, up, tz, clock, s) ==
    IF Len(loc) > MaxLocationLen
    THEN Ok(ErrorResult("Location input is too long.", loc))
    ELSE IF Sanitize(loc) = <<>>
    THEN Ok(ErrorResult("Invalid location input.", loc))
    ELSE \* one evaluation of the request
         CHOOSE y \in {FromFetch(r, tz, clock, loc) : r \in {Fetch(s, up, Sanitize(loc))}} : TRUE

-----------------------------------------------------------------------------
(* The invocation, step by step                                            *)

(* What a step of the invocation leaves alone: its argument, the provider, *)
(* the process's clock and timezone, the settings, and all that lies       *)
(* outside its frame.                                                      *)
App == <<session_state, runner_sessions, wall_clock, script>>
Env == <<location, upstream, local_tz, now, settings, previous, other, App>>

Return(r) ==
    /\ result' = r
    /\ pc' = "done"

Propagate(e) ==
    /\ exception' = Exc(e)
    /\ pc' = "raised"

(* A variant of Validate that only checks the length                       *)
ValidateLengthOnly ==
    /\ pc = "start"
    /\ IF Len(location) > MaxLocationLen
       THEN /\ Return(ErrorResult("Location input is too long.", location))
            /\ UNCHANGED sanitized_location
       ELSE /\ sanitized_location' = Chars(Sanitize(location))
            /\ pc' = "request" /\ UNCHANGED result
    /\ UNCHANGED <<Env, sent, data, hours, today_local, periods, morning,
                   afternoon, evening, exception>>

(* lines 99-115: the length check and the sanitization                     *)
Validate ==
    /\ pc = "start"
    /\ IF Len(location) > MaxLocationLen
       THEN /\ Return(ErrorResult("Location input is too long.", location))
            /\ UNCHANGED sanitized_location
       ELSE /\ sanitized_location' = Chars(Sanitize(location))
            /\ IF Sanitize(location) = <<>>
               THEN Return(ErrorResult("Invalid location input.", location))
               ELSE pc' = "request" /\ UNCHANGED result
    /\ UNCHANGED <<Env, sent, data, hours, today_local, periods, morning,
                   afternoon, evening, exception>>

(* A variant of Fetched that asks once more after a failed request         *)
FetchedRetrying(r) ==
    IF r.ok
    THEN data' = r.body /\ pc' = "extract" /\ UNCHANGED result
    ELSE IF sent = <<>>
    THEN pc' = "request" /\ UNCHANGED <<data, result>>
    ELSE Return(ErrorResult(r.msg, location)) /\ UNCHANGED data

(* lines 117-136: the single GET and the decoding of its body              *)
Fetched(r) ==
    IF r.ok
    THEN data' = r.body /\ pc' = "extract" /\ UNCHANGED result
    ELSE Return(ErrorResult(r.msg, location)) /\ UNCHANGED data

Request ==
    /\ pc = "request"
    /\ sent' = Append(sent, [url |-> settings.base_url,
                             params |-> Params(settings, sanitized_location.chars)])
    /\ IF Blocks(upstream)
       THEN pc' = "waiting" /\ UNCHANGED <<data, result>>
       ELSE \E r \in {Fetch(settings, upstream, sanitized_location.chars)} : Fetched(r)
    /\ UNCHANGED <<Env, sanitized_location, hours, today_local, periods, morning,
                   afternoon, evening, exception>>

(* A variant of Extracted without the early return on empty hours           *)
ExtractedWithoutEmptyCheck(h) ==
    IF ~h.ok
    THEN Propagate(h.exc) /\ UNCHANGED <<hours, result>>
    ELSE /\ hours' = h.val
         /\ UNCHANGED exception
         /\ pc' = "today" /\ UNCHANGED result

(* lines 137-149: timelines.hourly, and the early return when it is empty  *)
Extracted(h) ==
    IF ~h.ok
    THEN Propagate(h.exc) /\ UNCHANGED <<hours, result>>
    ELSE /\ hours' = h.val
         /\ UNCHANGED exception
         /\ IF ~Truthy(h.val)
            THEN Return(ErrorResult("No hourly weather data available.", location))
            ELSE pc' = "today" /\ UNCHANGED result

Extract ==
    /\ pc = "extract"
    /\ \E h \in {ExtractHours(data)} : Extracted(h)
    /\ UNCHANGED <<Env, sanitized_location, sent, data, today_local, periods,
                   morning, afternoon, evening>>

(* lines 151-155: the local timezone and today's local date                *)
ReadToday ==
    /\ pc = "today"
    /\ today_local' = Date(LocalDate(now, local_tz))
    /\ pc' = "morning"
    /\ UNCHANGED <<Env, sanitized_location, sent, data, hours, periods, morning,
                   afternoon, evening, result, exception>>

(* One call of summarize_period from lines 188-190, r its outcome         *)
Summarized(r, w, next) ==
    IF r.ok
    THEN /\ periods' = [periods EXCEPT ![w] = r.val]
         /\ pc' = next
         /\ UNCHANGED exception
    ELSE /\ Propagate(r.exc)
         /\ UNCHANGED periods

SummarizeMorning ==
    /\ pc = "morning"
    /\ \E r \in {summarize_period(hours, morning_hours, local_tz, today_local.day)} :
          Summarized(r, "morning", "afternoon")
    /\ morning' = IF pc' = "raised" THEN morning ELSE periods'.morning.line
    /\ UNCHANGED <<Env, sanitized_location, sent, data, hours, today_local,
                   afternoon, evening, result>>

SummarizeAfternoon ==
    /\ pc = "afternoon"
    /\ \E r \in {summarize_period(hours, afternoon_hours, local_tz, today_local.day)} :
          Summarized(r, "afternoon", "evening")
    /\ afternoon' = IF pc' = "raised" THEN afternoon ELSE periods'.afternoon.line
    /\ UNCHANGED <<Env, sanitized_location, sent, data, hours, today_local,
                   morning, evening, result>>

(* A variant of SummarizeEvening that reads the clock again                *)
SummarizeEveningRereading ==
    /\ pc = "evening"
    /\ \E r \in {summarize_period(hours, evening_hours, local_tz,
                                  LocalDate(now, local_tz))} :
          Summarized(r, "evening", "assemble")
    /\ evening' = IF pc' = "raised" THEN evening ELSE periods'.evening.line
    /\ UNCHANGED <<Env, sanitized_location, sent, data, hours, today_local,
                   morning, afternoon, result>>

SummarizeEvening ==
    /\ pc = "evening"
    /\ \E r \in {summarize_period(hours, evening_hours, local_tz, today_local.day)} :
          Summarized(r, "evening", "assemble")
    /\ evening' = IF pc' = "raised" THEN evening ELSE periods'.evening.line
    /\ UNCHANGED <<Env, sanitized_location, sent, data, hours, today_local,
                   morning, afternoon, result>>

(* lines 191-219: summary_parts and the returned dict                      *)
Assemble ==
    /\ pc = "assemble"
    /\ Return(Assembled(morning, afternoon, evening, location))
    /\ UNCHANGED <<Env, sanitized_location, sent, data, hours, today_local,
                   periods, morning, afternoon, evening, exception>>

Next ==
    \/ Validate
    \/ Request
    \/ Extract
    \/ ReadToday
    \/ SummarizeMorning
    \/ SummarizeAfternoon
    \/ SummarizeEvening
    \/ Assemble

-----------------------------------------------------------------------------
(* Inputs: the environment and the upstream answers the checks draw from   *)

MaxEntries == 2        \* longest hourly list of family 1 (shapes)
MaxObs == 3            \* longest hourly list of family 4 (metrics)

MOCK_API_KEY ==
    <<"d", "u", "m", "m", "y", "_", "a", "p", "i", "_", "k", "e",
       "y", "_", "f", "o", "r", "_", "t", "e", "s", "t", "i", "n",
       "g", "_", "p", "u", "r", "p", "o", "s", "e", "s", "_", "1",
       "2", "3", "4", "5", "6", "7", "8", "9", "0">>
TheSettings == Settings(MOCK_API_KEY).val

NewYork == <<"N", "e", "w", " ", "Y", "o", "r", "k", ",", " ", "N", "Y">>
Repeat(c, n) == [i \in 1..n |-> c]

(* A character outside ASCII is written by its code point.                 *)
Locations ==
    { <<>>, NewYork, <<" ">>, <<"\t", "\n">>,
      <<"S", "U+00E3", "o">>, <<"U+5317", "U+4EAC">>,
      <<"(", "a", "*", ")", "+">>,
      <<"4", "0", ".", "7", ",", "-", "7", "4">>,
      <<"z", "i", "p", ":", "1">>,
      Repeat("a", MaxLocationLen), Repeat("a", MaxLocationLen + 1) }

LocalZones == {-7, 0, 9}
LocalClockHours == {5, 20}
ClockAt(hour, tz) == Today * 24 + hour - tz

(* The ISO string of local day/hour, written at offset "off" or naive      *)
IsoAt(day, hour, tz, aware, off) ==
    LET shifted == day * 24 + hour - tz + off
    IN IF aware THEN JIso(shifted \div 24, shifted % 24, TRUE, off)
       ELSE JIso(day, hour, FALSE, 0)

Values(t, p, c) ==
    JObj([temperature |-> t, precipitationProbability |-> p, cloudCover |-> c])
GoodValues == Values(JNum(70), JNum(15), JNum(40))

Entry(time, values) == JObj([time |-> time, values |-> values])
EntryNoValues(time) == JObj([time |-> time])
EntryNoTime(values) == JObj([values |-> values])

Response(body) ==
    [kind |-> "response", status_code |-> 200, reason |-> "OK",
     is_json |-> TRUE, body |-> body]
Hourly(items) ==
    Response(JObj([timelines |-> JObj([hourly |-> JList(items)])]))

Failures ==
    { [kind |-> "exception", exc |-> "Timeout", msg |-> "Request timed out"],
      [kind |-> "exception", exc |-> "ConnectionError", msg |-> "Connection failed"],
      [kind |-> "response", status_code |-> 401, reason |-> "Unauthorized",
       is_json |-> FALSE, body |-> None],
      [kind |-> "response", status_code |-> 429, reason |-> "Too Many Requests",
       is_json |-> FALSE, body |-> None],
      [kind |-> "response", status_code |-> 500, reason |-> "Internal Server Error",
       is_json |-> TRUE, body |-> EmptyDict],
      [kind |-> "response", status_code |-> 200, reason |-> "OK",
       is_json |-> FALSE, body |-> None] }

(* A provider that accepts the request and never answers                   *)
Silent == [kind |-> "silent"]

Seqs(S, n) == UNION {[1..k -> S] : k \in 0..n}

(* --- family 1: shapes of the body -------------------------------------- *)
ShapeZone == CHOOSE z \in LocalZones : z < 0
MorningUtc == IsoAt(Today, 9, ShapeZone, TRUE, 0)
NightUtc == IsoAt(Today, 2, ShapeZone, TRUE, 0)
AfternoonUtc == IsoAt(Today, 13, ShapeZone, TRUE, 0)
TomorrowUtc == IsoAt(Today + 1, 9, ShapeZone, TRUE, 0)
BadTimes == {None, JNum(1700000000), JStr("invalid-time-format")}
(* The first instant of the calendar, written in UTC                       *)
ZeroTimeUtc == JIso(MinDay, 0, TRUE, 0)
ShapeValues ==
    { None, JList(<<>>), JStr("n/a"), JNum(0), EmptyDict, GoodValues,
      Values(None, JNum(15), JNum(40)), Values(JNum(70), JStr("high"), JNum(40)),
      Values(JNum(70), JNum(15), None) }
ShapeEntries ==
    {None, JNum(5), JStr("x"), JList(<<>>)}
    \cup {EntryNoTime(GoodValues), EntryNoValues(MorningUtc), Entry(AfternoonUtc, None)}
    \cup {Entry(ZeroTimeUtc, GoodValues)}
    \cup {Entry(t, v) : t \in BadTimes, v \in {GoodValues, None}}
    \cup {Entry(MorningUtc, v) : v \in ShapeValues}
    \cup {Entry(t, v) : t \in {NightUtc, TomorrowUtc},
                        v \in {GoodValues, None, Values(None, JNum(15), JNum(40))}}
ShapeBodies ==
    { None, JNum(7), JStr("ok"), JList(<<>>), EmptyDict,
      JObj([invalid |-> JStr("structure")]) }
    \cup {JObj([timelines |-> x]) :
            x \in {None, JStr("t"), JList(<<>>), JNum(0), EmptyDict}}
    \cup {JObj([timelines |-> JObj([hourly |-> x])]) :
            x \in {None, JStr("abc"), JStr(""), JNum(5), JNum(0), EmptyDict,
                   JObj([a |-> JNum(1)])}}
(* Answers with a 3xx status that requests hands back as they are (no       *)
(* Location header to follow), with and without a JSON body                *)
Unredirected ==
    { [kind |-> "response", status_code |-> 300, reason |-> "Multiple Choices",
       is_json |-> TRUE,
       body |-> JObj([timelines |->
                        JObj([hourly |-> JList(<<Entry(MorningUtc, GoodValues)>>)])])],
      [kind |-> "response", status_code |-> 304, reason |-> "Not Modified",
       is_json |-> FALSE, body |-> None] }
ShapeUpstreams ==
    Failures \cup {Silent} \cup Unredirected \cup {Response(b) : b \in ShapeBodies}
             \cup {Hourly(items) : items \in Seqs(ShapeEntries, MaxEntries)}

InitShapes ==
    /\ location = NewYork
    /\ local_tz = ShapeZone
    /\ now = ClockAt(10, ShapeZone)
    /\ upstream \in ShapeUpstreams

(* --- family 2: locations ----------------------------------------------- *)
InitLocations ==
    /\ location \in Locations
    /\ local_tz = ShapeZone
    /\ now = ClockAt(10, ShapeZone)
    /\ upstream \in Failures \cup { Silent, Hourly(<<>>),
                                     Hourly(<<Entry(MorningUtc, GoodValues)>>) }

(* --- family 3: one observation at every hour, date and offset ---------- *)
WindowTimes ==
    {JIso(d, h, a[1], a[2]) : d \in {Today - 1, Today, Today + 1}, h \in 0..23,
                              a \in {<<TRUE, 0>>, <<TRUE, -5>>, <<FALSE, 0>>}}
InitWindows ==
    /\ location = NewYork
    /\ local_tz \in LocalZones
    /\ \E h \in LocalClockHours : now = ClockAt(h, local_tz)
    /\ \E t \in WindowTimes : upstream = Hourly(<<Entry(t, GoodValues)>>)

(* --- family 4: observations of today with varied metrics --------------- *)
MetricValues ==
    { Values(JNum(70), JNum(15), JNum(40)), Values(JNum(72), JNum(10), JNum(20)),
      Values(JNum(75), JNum(10), JNum(19)), Values(JNum(-3), JNum(100), JNum(50)),
      Values(JNum(70), JNum(15), JNum(49)),
      JObj([temperature |-> JNum(75)]),
      JObj([precipitationProbability |-> JNum(5), cloudCover |-> JNum(5)]),
      EmptyDict }
MetricEntries ==
    {EntryNoValues(IsoAt(Today, 13, ShapeZone, TRUE, 0))}
    \cup {Entry(IsoAt(Today, 8, ShapeZone, TRUE, 0), v) : v \in MetricValues}
    \cup {Entry(IsoAt(Today, 13, ShapeZone, TRUE, 0), v) :
            v \in {Values(JNum(70), JNum(15), JNum(50)), Values(JNum(70), JNum(15), JNum(20))}}
InitAverages ==
    /\ location = NewYork
    /\ local_tz = ShapeZone
    /\ now = ClockAt(10, ShapeZone)
    /\ \E items \in Seqs(MetricEntries, MaxObs) :
          items # <<>> /\ upstream = Hourly(items)

(* --- family 5: the six observations of the sample response ------------- *)
SampleValues ==
    [h \in {8, 9, 13, 14, 18, 19} |->
        CASE h = 8  -> Values(JNum(70), JNum(15), JNum(40))
          [] h = 9  -> Values(JNum(72), JNum(10), JNum(20))
          [] h = 13 -> Values(JNum(80), JNum(5), JNum(10))
          [] h = 14 -> Values(JNum(84), JNum(5), JNum(5))
          [] h = 18 -> Values(JNum(78), JNum(0), JNum(0))
          [] h = 19 -> Values(JNum(76), JNum(0), JNum(0))]
SampleHours == <<8, 9, 13, 14, 18, 19>>
Reverse(s) == [i \in 1..Len(s) |-> s[Len(s) + 1 - i]]
SampleResponse(tz, aware, off, order) ==
    Hourly([i \in 1..Len(order) |->
              Entry(IsoAt(Today, order[i], tz, aware, off), SampleValues[order[i]])])
SampleResponses(tz) ==
    {SampleResponse(tz, a[1], a[2], order) :
        a \in {<<TRUE, 0>>, <<TRUE, tz>>, <<FALSE, 0>>},
        order \in {SampleHours, Reverse(SampleHours)}}
InitSample ==
    /\ location = NewYork
    /\ local_tz \in LocalZones
    /\ \E h \in LocalClockHours : now = ClockAt(h, local_tz)
    /\ upstream \in SampleResponses(local_tz)

(* The frame of an invocation that has not taken a step                    *)
NoPeriods == [w \in {"morning", "afternoon", "evening"} |-> Unset]
NoLocals ==
    /\ sanitized_location = Unset
    /\ sent = <<>>
    /\ data = Unset
    /\ hours = Unset
    /\ today_local = Unset
    /\ periods = NoPeriods
    /\ morning = Unset
    /\ afternoon = Unset
    /\ evening = Unset
    /\ result = Unset
    /\ exception = Unset
Entered == pc = "start" /\ NoLocals

(* No earlier call, no other thread, no chat application                   *)
NoApp ==
    /\ session_state = Unset
    /\ runner_sessions = Unset
    /\ wall_clock = 0
    /\ script = Unset
Single == previous = Unset /\ other = Unset /\ NoApp

Init ==
    /\ (InitShapes \/ InitLocations \/ InitWindows \/ InitAverages \/ InitSample)
    /\ settings = TheSettings
    /\ Entered
    /\ Single

Spec == Init /\ [][Next]_vars

(* The interpreter runs the invocation on: a step that can be taken is     *)
(* taken.                                                                  *)
LiveSpec == Spec /\ WF_vars(Next)

-----------------------------------------------------------------------------
(* The import of the module: ImportSpec starts before client.py:69 has     *)
(* run, with a credential in the environment.                              *)

Credentials ==
    { MOCK_API_KEY, Repeat("a", MinKeyLen), Repeat("_", MinKeyLen),
      Repeat("a", MinKeyLen - 1), <<>>,
      Repeat("a", MinKeyLen) \o <<"\n">>, Repeat("a", MinKeyLen - 1) \o <<"\n">>,
      Repeat("a", MinKeyLen) \o <<"\n", "\n">>, Repeat("a", MinKeyLen) \o <<" ">>,
      Repeat("a", MinKeyLen - 1) \o <<"-">> }

(* settings = Settings(), s its outcome: a ValidationError ends the import *)
Constructed(s) ==
    IF s.ok
    THEN settings' = s.val /\ pc' = "start" /\ UNCHANGED exception
    ELSE UNCHANGED settings /\ exception' = Exc(s.exc) /\ pc' = "import_error"

Import ==
    /\ pc = "import"
    /\ \E api_key \in Credentials : \E s \in {Settings(api_key)} : Constructed(s)
    /\ UNCHANGED <<location, upstream, local_tz, now, previous, other, App,
                   sanitized_location, sent, data, hours, today_local, periods,
                   morning, afternoon, evening, result>>

ImportInit ==
    /\ InitLocations
    /\ settings = Unset
    /\ pc = "import"
    /\ NoLocals
    /\ Single

ImportNext == Import \/ Next

ImportSpec == ImportInit /\ [][ImportNext]_vars

-----------------------------------------------------------------------------
(* A second call: TwiceSpec lets the thread call get_tmrw_weather_tool     *)
(* again once the first call is over, with the same argument, the same     *)
(* answer of the provider, the same clock and timezone.                    *)

Ended == IF pc = "raised" THEN Raise(exception.type) ELSE Ok(result)

(* The frame of the first call is discarded when it returns or raises; the *)
(* second call starts with a frame of its own.  What is kept of the first  *)
(* call is what the caller saw, and (for comparison) the lists it built.   *)
CallAgain ==
    /\ pc \in {"done", "raised"}
    /\ previous = Unset
    /\ previous' = [t |-> "call", outcome |-> Ended, periods |-> periods]
    /\ pc' = "start"
    /\ sanitized_location' = Unset
    /\ sent' = <<>>
    /\ data' = Unset
    /\ hours' = Unset
    /\ today_local' = Unset
    /\ periods' = NoPeriods
    /\ morning' = Unset
    /\ afternoon' = Unset
    /\ evening' = Unset
    /\ result' = Unset
    /\ exception' = Unset
    /\ UNCHANGED <<location, upstream, local_tz, now, settings, other, App>>

TwiceNext == Next \/ CallAgain

TwiceSpec == Init /\ [][TwiceNext]_vars

-----------------------------------------------------------------------------
(* A second thread: ConcurrentSpec runs two invocations in one process.    *)
(* Each has its frame (argument, locals, position, and the answer the      *)
(* provider gives to its request); the settings, the clock and the         *)
(* timezone belong to the process.  One thread runs at a time and the      *)
(* interpreter may switch between any two steps.                           *)

Frame ==
    [location |-> location, upstream |-> upstream, pc |-> pc,
     sanitized_location |-> sanitized_location, sent |-> sent, data |-> data,
     hours |-> hours, today_local |-> today_local, periods |-> periods,
     morning |-> morning, afternoon |-> afternoon, evening |-> evening,
     result |-> result, exception |-> exception]

StartFrame(loc, up) ==
    [location |-> loc, upstream |-> up, pc |-> "start",
     sanitized_location |-> Unset, sent |-> <<>>, data |-> Unset,
     hours |-> Unset, today_local |-> Unset, periods |-> NoPeriods,
     morning |-> Unset, afternoon |-> Unset, evening |-> Unset,
     result |-> Unset, exception |-> Unset]

(* The locals of the frame f become the running thread's                   *)
Resume(f) ==
    /\ location' = f.location
    /\ upstream' = f.upstream
    /\ pc' = f.pc
    /\ sanitized_location' = f.sanitized_location
    /\ sent' = f.sent
    /\ hours' = f.hours
    /\ today_local' = f.today_local
    /\ periods' = f.periods
    /\ morning' = f.morning
    /\ afternoon' = f.afternoon
    /\ evening' = f.evening
    /\ result' = f.result
    /\ exception' = f.exception

(* A variant of Switch in which data is a variable of the module, one for  *)
(* both threads                                                            *)
SwitchSharingData ==
    /\ other' = Frame
    /\ Resume(other)
    /\ UNCHANGED <<data, local_tz, now, settings, previous, App>>

(* The thread switch: the running thread is suspended with its frame, the  *)
(* other one resumes with its own.                                         *)
Switch ==
    /\ other' = Frame
    /\ Resume(other)
    /\ data' = other.data
    /\ UNCHANGED <<local_tz, now, settings, previous, App>>

ConcurrentLocations == {NewYork, <<>>, <<"z", "i", "p", ":", "1">>}
ConcurrentUpstreams ==
    { [kind |-> "exception", exc |-> "Timeout", msg |-> "Request timed out"],
      [kind |-> "response", status_code |-> 401, reason |-> "Unauthorized",
       is_json |-> FALSE, body |-> None],
      Response(None), Hourly(<<>>),
      Hourly(<<Entry(MorningUtc, GoodValues)>>),
      Hourly(<<Entry(AfternoonUtc, Values(JNum(80), JNum(5), JNum(10))),
               Entry(TomorrowUtc, GoodValues)>>) }

ConcurrentInit ==
    /\ location \in ConcurrentLocations
    /\ upstream \in ConcurrentUpstreams
    /\ local_tz = ShapeZone
    /\ now = ClockAt(10, ShapeZone)
    /\ settings = TheSettings
    /\ Entered
    /\ \E loc \in ConcurrentLocations, up \in ConcurrentUpstreams :
          other = StartFrame(loc, up)
    /\ previous = Unset
    /\ NoApp

ConcurrentNext == Next \/ Switch

ConcurrentSpec == ConcurrentInit /\ [][ConcurrentNext]_vars

-----------------------------------------------------------------------------
(* A running clock: ClockSpec starts the call in the last hour of the      *)
(* local day and lets the clock advance between any two steps.             *)

MaxTicks == 1          \* hours the clock advances during the call

LastHour == 23
Tick ==
    /\ pc \notin {"done", "raised"}
    /\ now < ClockAt(LastHour, local_tz) + MaxTicks
    /\ now' = now + 1
    /\ UNCHANGED <<location, upstream, local_tz, settings, previous, other, App, pc,
                   sanitized_location, sent, data, hours, today_local, periods,
                   morning, afternoon, evening, result, exception>>

(* Observations of today and of tomorrow in two of the windows             *)
ClockEntries ==
    {Entry(IsoAt(d, h, ShapeZone, TRUE, 0), Values(JNum(60 + 10 * (d - Today) + h), JNum(h), JNum(h))) :
        d \in {Today, Today + 1}, h \in {9, 18}}

ClockInit ==
    /\ location = NewYork
    /\ local_tz = ShapeZone
    /\ now = ClockAt(LastHour, local_tz)
    /\ \E items \in Seqs(ClockEntries, 2) : upstream = Hourly(items)
    /\ settings = TheSettings
    /\ Entered
    /\ Single

ClockNext == Next \/ Tick

ClockSpec == ClockInit /\ [][ClockNext]_vars

-----------------------------------------------------------------------------
(* The chat application, app.py.  Streamlit runs the script main() from    *)
(* top to bottom at every user event (a rerun) with st.session_state kept  *)
(* from run to run.  AppSpec follows st.session_state.messages and         *)
(* .conversation_id, and the sessions the agents' runners keep.  A run     *)
(* that handles a prompt is three steps: the user's message is appended,   *)
(* the agent answers, the assistant's message is appended.                 *)

MaxPrompts == 2        \* prompts submitted in a behaviour
MaxClears == 2         \* clicks on Clear Chat in a behaviour
MaxSeconds == 1        \* seconds the wall clock advances in a behaviour

Welcome == [role |-> "assistant", content |-> "welcome", agent |-> "system"]

(* What a user types: the text and the routing keywords it holds           *)
Prompts ==
    { [text |-> "plan my day", words |-> {"plan", "day"}],
      [text |-> "find a fact", words |-> {"find", "fact"}],
      [text |-> "hello", words |-> {}] }
Agents == <<"day_planner", "google_search">>

(* ChatbotManager.auto_select_agent                                        *)
auto_select_agent(message) ==
    IF message.words \cap {"weather", "plan", "day", "activity", "outdoor"} # {}
    THEN "day_planner"
    ELSE IF message.words \cap {"search", "find", "google", "research", "fact"} # {}
    THEN "google_search"
    ELSE Agents[1]

(* f"chat_{int(time.time())}"                                              *)
NewConversationId(seconds) == "chat_" \o ToString(seconds)

(* A bookkeeping counter the code does not keep numbers the conversations: *)
(* it is raised by every Clear Chat.                                       *)
Idle(conversation, prompts, clears) ==
    [at |-> "idle", conversation |-> conversation, prompts |-> prompts,
     clears |-> clears]

NoSessions == [k \in {} |-> <<>>]

(* initialize_session_state, in the first run of a browser session         *)
AppInit ==
    /\ wall_clock = 0
    /\ session_state = [messages |-> <<Welcome>>,
                        conversation_id |-> NewConversationId(wall_clock),
                        selected_agent |-> "auto"]
    /\ runner_sessions = NoSessions
    /\ script = Idle(0, 0, 0)
    /\ location = <<>> /\ upstream = Unset /\ local_tz = 0 /\ now = 0
    /\ settings = Unset
    /\ pc = "none"
    /\ NoLocals
    /\ previous = Unset /\ other = Unset

Invocation == <<location, upstream, local_tz, now, settings, pc, sanitized_location,
         sent, data, hours, today_local, periods, morning, afternoon, evening,
         result, exception, previous, other>>

(* A run in which nothing was clicked or typed: handle_user_input finds no *)
(* prompt (line 689).  It is also the run st.rerun() starts after a clear. *)
RerunWithoutPrompt ==
    /\ script.at \in {"idle", "rerun"}
    /\ script' = [script EXCEPT !.at = "idle"]
    /\ UNCHANGED <<session_state, runner_sessions, wall_clock, Invocation>>

(* handle_user_input, lines 689-697: the user's message is appended        *)
SubmitPrompt ==
    /\ script.at = "idle"
    /\ script.prompts < MaxPrompts
    /\ \E prompt \in Prompts :
          /\ session_state' =
                [session_state EXCEPT !.messages =
                    Append(@, [role |-> "user", content |-> prompt.text,
                               agent |-> "user"])]
          /\ script' = [at |-> "typing", conversation |-> script.conversation,
                        prompts |-> script.prompts + 1, clears |-> script.clears,
                        prompt |-> prompt]
    /\ UNCHANGED <<runner_sessions, wall_clock, Invocation>>

(* ChatbotManager.get_agent_response, lines 262-348: the runner of the     *)
(* agent works in the session named by conversation_id, created if it does *)
(* not exist, and adds the exchange to its events.                         *)
SessionKey(agent_name) == <<agent_name, session_state.conversation_id>>
EventsOf(key) == IF key \in DOMAIN runner_sessions THEN runner_sessions[key] ELSE <<>>
Exchange == [conversation |-> script.conversation, message |-> script.prompt.text]

get_agent_response ==
    /\ script.at = "typing"
    /\ \E selected_agent \in {auto_select_agent(script.prompt)} :
          /\ runner_sessions' =
                [key \in DOMAIN runner_sessions \cup {SessionKey(selected_agent)} |->
                    IF key = SessionKey(selected_agent)
                    THEN Append(EventsOf(key), Exchange)
                    ELSE runner_sessions[key]]
          /\ script' = [at |-> "answered", conversation |-> script.conversation,
                        prompts |-> script.prompts, clears |-> script.clears,
                        prompt |-> script.prompt, agent |-> selected_agent,
                        seen |-> EventsOf(SessionKey(selected_agent))]
    /\ UNCHANGED <<session_state, wall_clock, Invocation>>

(* handle_user_input, lines 716-726: the assistant's message is appended   *)
AppendResponse ==
    /\ script.at = "answered"
    /\ session_state' =
          [session_state EXCEPT !.messages =
              Append(@, [role |-> "assistant",
                         content |-> "reply to " \o script.prompt.text,
                         agent |-> script.agent])]
    /\ script' = Idle(script.conversation, script.prompts, script.clears)
    /\ UNCHANGED <<runner_sessions, wall_clock, Invocation>>

(* A user event (the agent selectbox, a button, a new prompt) while the    *)
(* run is at work: Streamlit stops the run at its next st.* call (lines    *)
(* 700, 701, 704, 705 and 717 lie between the two appends) by raising an   *)
(* exception that derives from BaseException, which line 751 does not      *)
(* catch, and starts the rerun for the event.                              *)
Interrupt ==
    /\ script.at \in {"typing", "answered"}
    /\ script' = Idle(script.conversation, script.prompts, script.clears)
    /\ UNCHANGED <<session_state, runner_sessions, wall_clock, Invocation>>

(* render_sidebar, lines 581-584: Clear Chat                               *)
ClearChat ==
    /\ script.at = "idle"
    /\ script.clears < MaxClears
    /\ session_state' =
          [session_state EXCEPT
              !.messages = <<session_state.messages[1]>>,
              !.conversation_id = NewConversationId(wall_clock)]
    /\ script' = [at |-> "rerun", conversation |-> script.conversation + 1,
                  prompts |-> script.prompts, clears |-> script.clears + 1]
    /\ UNCHANGED <<runner_sessions, wall_clock, Invocation>>

(* time.time() moves on by a second                                        *)
TickSecond ==
    /\ wall_clock < MaxSeconds
    /\ wall_clock' = wall_clock + 1
    /\ UNCHANGED <<session_state, runner_sessions, script, Invocation>>

AppNext ==
    \/ RerunWithoutPrompt
    \/ SubmitPrompt
    \/ get_agent_response
    \/ AppendResponse
    \/ Interrupt
    \/ ClearChat
    \/ TickSecond

AppSpec == AppInit /\ [][AppNext]_vars

-----------------------------------------------------------------------------
(* Properties.  The local date and hour of a timestamp are computed here   *)
(* directly from its fields, the windows are written as their hour sets.   *)

Windows == {"morning", "afternoon", "evening"}
WindowHours(w) ==
    CASE w = "morning"   -> 8..11
      [] w = "afternoon" -> 12..16
      [] w = "evening"   -> 17..21
WindowLabel(w) ==
    CASE w = "morning"   -> "Morning (8am-12pm)"
      [] w = "afternoon" -> "Afternoon (12pm-5pm)"
      [] w = "evening"   -> "Evening (5pm-10pm)"

(* summarize_period has returned for window w                              *)
Done(w) == periods[w] # Unset
HasAverages(w) == Done(w) /\ periods[w].line # None
Finished == pc \in {"done", "raised"}
HoursIsList == hours.t = "list"
NumItems == IF HoursIsList THEN Len(hours.items) ELSE 0
Item(i) == hours.items[i]
(* today_local has been assigned (a non-empty list went past line 152)     *)
TodayRead == HoursIsList /\ NumItems > 0 /\ pc # "today"

WellTimed(e) ==
    /\ e.t = "obj"
    /\ "time" \in DOMAIN e.fields
    /\ e.fields.time.t = "str"
    /\ e.fields.time.iso
BadTime(e) == e.t = "obj" /\ ~WellTimed(e)
HasValuesKey(e) == e.t = "obj" /\ "values" \in DOMAIN e.fields
ObjectValues(e) == HasValuesKey(e) /\ e.fields.values.t = "obj"
BadValues(e) == HasValuesKey(e) /\ e.fields.values.t # "obj"

InstantOf(ts, tz) == ts.day * 24 + ts.hour - (IF ts.aware THEN ts.off ELSE tz)
LocalDayOf(ts, tz) == (InstantOf(ts, tz) + tz) \div 24
LocalHourOf(ts, tz) == (InstantOf(ts, tz) + tz) % 24

(* Entry i is of today (the date the invocation read)                      *)
OfToday(i) ==
    /\ WellTimed(Item(i))
    /\ LocalDayOf(Item(i).fields.time, local_tz) = today_local.day
HourOf(i) == LocalHourOf(Item(i).fields.time, local_tz)
Eligible(w) == {i \in 1..NumItems : OfToday(i) /\ HourOf(i) \in WindowHours(w)}

(* Entry i was appended to the lists of window w                           *)
CountedIn(i, w) ==
    \E k \in 1..Len(periods[w].lists.counted) : periods[w].lists.counted[k] = i

RemoveAt(seq, i) == [k \in 1..(Len(seq) - 1) |-> IF k < i THEN seq[k] ELSE seq[k + 1]]

(* How the invocation ended, and the three summaries it computed           *)
Outcome == IF pc = "raised" THEN Raise(exception.type) ELSE Ok(result)
ComputedSummaries ==
    IF pc = "raised" THEN Raise(exception.type) ELSE Ok(<<morning, afternoon, evening>>)

(* C1: whatever the location and the upstream outcome, the invocation      *)
(* returns a dict whose status is "success" or "error"; no exception       *)
(* leaves get_tmrw_weather_tool.                                           *)
C1_NeverRaises ==
    /\ pc # "raised"
    /\ pc = "done" => result.status \in {"success", "error"}

(* C2 as stated: the six observations of the sample response give the      *)
(* forecast text with a 13% morning rain chance.                           *)
SampleText(morning_prec) ==
    "Today's forecast - Morning (8am-12pm): Avg 71F, " \o morning_prec
        \o "% rain chance, partly cloudy. Afternoon (12pm-5pm): Avg 82F, 5% rain chance, "
        \o "sunny. Evening (5pm-10pm): Avg 77F, 0% rain chance, sunny."
IsSample ==
    /\ upstream.kind = "response"
    /\ upstream.body.t = "obj"
    /\ DOMAIN upstream.body.fields = {"timelines"}
    /\ upstream.body.fields.timelines.t = "obj"
    /\ DOMAIN upstream.body.fields.timelines.fields = {"hourly"}
    /\ upstream.body.fields.timelines.fields.hourly.t = "list"
    /\ Len(upstream.body.fields.timelines.fields.hourly.items) = Len(SampleHours)
    /\ upstream \in SampleResponses(local_tz)
C2_SampleText13 ==
    IsSample => /\ pc # "raised"
                /\ pc = "done" => result = SuccessResult(SampleText("13"), location)

(* C2 amended: the six observations of the sample response give status     *)
(* success and the forecast text whose morning rain chance is 12%: the     *)
(* mean of 15 and 10 is 12.5, and round() takes a tie to the even          *)
(* neighbour.                                                              *)
C2_SampleText12 ==
    IsSample => /\ pc # "raised"
                /\ pc = "done" => result = SuccessResult(SampleText("12"), location)
C2_Witness ==
    /\ IsSample
    /\ pc = "done"
    /\ result.status = "success"
    /\ periods.morning.lists.prec_probs = <<JNum(15), JNum(10)>>

(* C3: an observation of today at local hour 12 is counted in Afternoon    *)
(* and not in Morning, one at 17 in Evening and not in Afternoon, one at 7 *)
(* or 22 in no window; in general it is counted in window [start, stop)    *)
(* exactly when start <= hour < stop.                                      *)
C3_WindowBoundaries ==
    \A w \in Windows : Done(w) /\ HoursIsList =>
        \A i \in 1..NumItems : OfToday(i) =>
            /\ HourOf(i) = 12 => (CountedIn(i, w) <=> w = "afternoon")
            /\ HourOf(i) = 17 => (CountedIn(i, w) <=> w = "evening")
            /\ HourOf(i) \in {7, 22} => ~CountedIn(i, w)
            /\ CountedIn(i, w) <=> HourOf(i) \in WindowHours(w)
C3_Witness ==
    /\ pc = "done"
    /\ NumItems = 1
    /\ OfToday(1) /\ HourOf(1) = 12
    /\ Done("morning") /\ ~CountedIn(1, "morning")
    /\ Done("afternoon") /\ CountedIn(1, "afternoon")

(* C4: every observation is counted in at most one window, and only in a   *)
(* window whose range holds its local hour (source offset converted to the *)
(* local timezone) while its local date is today; observations of another  *)
(* local date are never counted.                                           *)
C4_LocalWindows ==
    HoursIsList => \A i \in 1..NumItems :
        /\ Cardinality({w \in Windows : Done(w) /\ CountedIn(i, w)}) <= 1
        /\ \A w \in Windows : Done(w) /\ CountedIn(i, w) =>
              /\ OfToday(i)
              /\ HourOf(i) \in WindowHours(w)
(* A counted observation whose UTC hour lies in another window             *)
C4_Witness ==
    /\ pc = "done"
    /\ NumItems = 1
    /\ CountedIn(1, "afternoon")
    /\ Item(1).fields.time.aware /\ Item(1).fields.time.off = 0
    /\ Item(1).fields.time.hour \in WindowHours("evening")

(* The value an entry gives for a metric, 0 when the field (or the whole   *)
(* values object) is absent                                                *)
ValuesOf(e) == IF HasValuesKey(e) THEN e.fields.values ELSE EmptyDict
MetricOf(e, f) ==
    IF f \in DOMAIN ValuesOf(e).fields THEN ValuesOf(e).fields[f] ELSE JNum(0)

RECURSIVE Total(_, _)
Total(S, f) ==
    IF S = {} THEN 0
    ELSE LET i == CHOOSE i \in S : TRUE
         IN MetricOf(Item(i), f).n + Total(S \ {i}, f)

(* a is an integer nearest to total / n: |a - total / n| <= 1/2            *)
Nearest(a, total, n) == 2 * (a * n - total) <= n /\ 2 * (total - a * n) <= n

(* C5: for every window with at least one eligible observation, each       *)
(* reported average is the mean of that field over exactly the eligible    *)
(* observations of the window, rounded to the nearest integer (it differs  *)
(* from the exact mean by at most one half).                               *)
C5_RoundedMeans ==
    \A w \in Windows : Done(w) /\ HoursIsList =>
        \A el \in {Eligible(w)} : el # {} =>
            /\ HasAverages(w)
            /\ Len(periods[w].lists.temps) = Cardinality(el)
            /\ Nearest(periods[w].avg_temp, Total(el, "temperature"),
                       Cardinality(el))
            /\ Nearest(periods[w].avg_prec, Total(el, "precipitationProbability"),
                       Cardinality(el))
            /\ Nearest(periods[w].avg_cloud, Total(el, "cloudCover"),
                       Cardinality(el))
(* Three observations whose mean temperature is not an integer             *)
C5_Witness ==
    /\ pc = "done"
    /\ HasAverages("morning")
    /\ Cardinality(Eligible("morning")) = 3
    /\ Total(Eligible("morning"), "temperature") % 3 = 2
    /\ periods.morning.avg_temp * 3 = Total(Eligible("morning"), "temperature") + 1

(* C6: the cloud descriptor follows the rounded average cloud cover: below *)
(* 20 "sunny", from 20 to below 50 "partly cloudy", 50 or more "cloudy";   *)
(* exactly 20 is "partly cloudy" and exactly 50 is "cloudy".  The line of  *)
(* the window ends with that descriptor.                                   *)
C6_CloudDescriptor ==
    \A w \in Windows : HasAverages(w) =>
        /\ periods[w].avg_cloud < 20 => periods[w].cloud_desc = "sunny"
        /\ 20 <= periods[w].avg_cloud /\ periods[w].avg_cloud < 50
              => periods[w].cloud_desc = "partly cloudy"
        /\ periods[w].avg_cloud >= 50 => periods[w].cloud_desc = "cloudy"
        /\ periods[w].line =
              JStr("Avg " \o ToString(periods[w].avg_temp) \o "F, "
                   \o ToString(periods[w].avg_prec) \o "% rain chance, "
                   \o periods[w].cloud_desc)
C6_Witness ==
    /\ pc = "done"
    /\ HasAverages("morning") /\ HasAverages("afternoon")
    /\ periods.morning.avg_cloud = 20 /\ periods.morning.cloud_desc = "partly cloudy"
    /\ periods.afternoon.avg_cloud = 50 /\ periods.afternoon.cloud_desc = "cloudy"

(* Entry i is the k-th appended of window w, with metrics t, p, c          *)
AppendedAs(i, w, t, p, c) ==
    \E k \in 1..Len(periods[w].lists.counted) :
        /\ periods[w].lists.counted[k] = i
        /\ periods[w].lists.temps[k] = t
        /\ periods[w].lists.prec_probs[k] = p
        /\ periods[w].lists.clouds[k] = c

Metrics == {"temperature", "precipitationProbability", "cloudCover"}
LacksMetric(e) == ObjectValues(e) /\ ~(Metrics \subseteq DOMAIN e.fields.values.fields)

(* An entry with a timestamp (one that the calendar can express in UTC and *)
(* in the local timezone) and numeric metrics, some possibly absent        *)
NumericEntry(e) ==
    /\ WellTimed(e)
    /\ InCalendar(InstantOf(e.fields.time, local_tz))
    /\ InCalendar(InstantOf(e.fields.time, local_tz) + local_tz)
    /\ HasValuesKey(e) => ObjectValues(e)
    /\ \A f \in DOMAIN ValuesOf(e).fields : ValuesOf(e).fields[f].t = "num"

(* C7: an eligible entry that lacks temperature, precipitationProbability  *)
(* or cloudCover is still counted in its window: the missing field         *)
(* contributes 0, the present fields their values; the absence of a field  *)
(* raises nothing.                                                         *)
C7_MissingFieldIsZero ==
    /\ \A w \in Windows : Done(w) /\ HoursIsList =>
          \A i \in Eligible(w) : LacksMetric(Item(i)) =>
              AppendedAs(i, w, MetricOf(Item(i), "temperature"),
                               MetricOf(Item(i), "precipitationProbability"),
                               MetricOf(Item(i), "cloudCover"))
    /\ HoursIsList /\ (\A i \in 1..NumItems : NumericEntry(Item(i))) => pc # "raised"
C7_Witness ==
    /\ pc = "done"
    /\ NumItems = 1
    /\ 1 \in Eligible("morning")
    /\ LacksMetric(Item(1))
    /\ DOMAIN Item(1).fields.values.fields = {"temperature"}
    /\ AppendedAs(1, "morning", JNum(75), JNum(0), JNum(0))
    /\ result.forecast =
          JStr("Today's forecast - Morning (8am-12pm): Avg 75F, 0% rain chance, sunny.")

(* C8: an entry with a valid timestamp of today inside a window and no     *)
(* values key counts as an observation of that window with the three       *)
(* metrics 0; a list holding only such an entry yields status success with *)
(* "Avg 0F, 0% rain chance, sunny" for that window.                        *)
C8_NoValuesKeyCounts ==
    \A w \in Windows : HoursIsList =>
        /\ Done(w) =>
              \A i \in Eligible(w) : ~HasValuesKey(Item(i)) =>
                  AppendedAs(i, w, JNum(0), JNum(0), JNum(0))
        /\ NumItems = 1 /\ TodayRead /\ 1 \in Eligible(w)
             /\ ~HasValuesKey(Item(1)) =>
              /\ pc # "raised"
              /\ pc = "done" =>
                    result = SuccessResult("Today's forecast - " \o WindowLabel(w)
                                 \o ": Avg 0F, 0% rain chance, sunny.", location)
C8_Witness ==
    /\ pc = "done"
    /\ NumItems = 1
    /\ 1 \in Eligible("afternoon")
    /\ ~HasValuesKey(Item(1))
    /\ result.status = "success"

(* C9: an entry whose values is present and not an object is skipped       *)
(* silently, whatever its timestamp: the three summaries are those of the  *)
(* list without that entry.                                                *)
C9_BadValuesSkipped ==
    Finished /\ HoursIsList /\ TodayRead =>
        \A i \in 1..NumItems : BadValues(Item(i)) =>
            ComputedSummaries =
                Summaries(JList(RemoveAt(hours.items, i)), local_tz, today_local.day)

(* C10 as stated: an entry whose timestamp is missing, not a string or     *)
(* unparsable is skipped, and the result is the result of the list with    *)
(* that entry removed.                                                     *)
C10_BadTimeRemovable ==
    Finished /\ HoursIsList /\ TodayRead =>
        \A i \in 1..NumItems : BadTime(Item(i)) =>
            Outcome = FromHours(JList(RemoveAt(hours.items, i)), local_tz,
                                today_local.day, location)

(* C10 amended: such an entry is skipped, and when the list holds at least *)
(* one other entry the result is the result of the list with that entry    *)
(* removed; the three summaries are in every case those of the list        *)
(* without it.  (With no other entry the result is the error "No forecast  *)
(* data available for today.", that of the empty list is "No hourly        *)
(* weather data available.")                                               *)
C10_BadTimeSkipped ==
    Finished /\ HoursIsList /\ TodayRead =>
        \A i \in 1..NumItems : BadTime(Item(i)) =>
            /\ ComputedSummaries =
                  Summaries(JList(RemoveAt(hours.items, i)), local_tz, today_local.day)
            /\ NumItems >= 2 =>
                  Outcome = FromHours(JList(RemoveAt(hours.items, i)), local_tz,
                                      today_local.day, location)
            /\ NumItems = 1 =>
                  Outcome = Ok(ErrorResult("No forecast data available for today.",
                                           location))
(* An unparsable timestamp beside an observation that is summarized        *)
C10_Witness ==
    /\ pc = "done"
    /\ NumItems = 2
    /\ \E i \in 1..2 : /\ BadTime(Item(i))
                       /\ "time" \in DOMAIN Item(i).fields
                       /\ FromIsoFormat(Item(i).fields.time) = Raise("ValueError")
    /\ result.status = "success"

(* The body was received and its timelines.hourly is the list v            *)
Received == data.t # "unset"
HasHourly ==
    /\ Received
    /\ data.t = "obj"
    /\ "timelines" \in DOMAIN data.fields
    /\ data.fields.timelines.t = "obj"
    /\ "hourly" \in DOMAIN data.fields.timelines.fields
HourlyValue == data.fields.timelines.fields.hourly
NoneSummarized ==
    /\ \A w \in Windows : ~Done(w)
    /\ morning = Unset /\ afternoon = Unset /\ evening = Unset

(* C11: when the request succeeds and timelines.hourly is the empty list,  *)
(* the invocation returns the error "No hourly weather data available."    *)
(* with forecast None, straight from the extraction: the local date is     *)
(* never read and no window is summarized.                                 *)
C11_EmptyHourly ==
    HasHourly /\ HourlyValue = EmptyList =>
        /\ pc \in {"extract", "done"}
        /\ NoneSummarized
        /\ pc = "done" =>
              result = ErrorResult("No hourly weather data available.", location)
C11_Witness ==
    /\ HasHourly /\ HourlyValue = EmptyList
    /\ pc = "done"
    /\ hours = EmptyList
    /\ result.error_message = "No hourly weather data available."
    /\ result.forecast = None

(* C12: when the body was received and timelines.hourly is absent or is    *)
(* not a list (or timelines, or the body, is not an object), the           *)
(* invocation ends with the error "No hourly weather data available." and  *)
(* in no other way.                                                        *)
C12_NonListIsEmpty ==
    Received /\ ~(HasHourly /\ HourlyValue.t = "list") =>
        /\ pc \in {"extract", "done"}
        /\ pc = "done" =>
              result = ErrorResult("No hourly weather data available.", location)

(* Some entry is of today with a local hour in [8, 22)                     *)
AnyEligible == \E w \in Windows : Eligible(w) # {}

(* C13: with a non-empty hourly list the result is status success if and   *)
(* only if some entry has local date today and local hour in [8, 22);      *)
(* otherwise it is the error "No forecast data available for today." with  *)
(* forecast None.                                                          *)
C13_SuccessIffEligible ==
    Finished /\ HoursIsList /\ NumItems > 0 =>
        /\ AnyEligible => Outcome.ok /\ Outcome.val.status = "success"
        /\ ~AnyEligible =>
              Outcome = Ok(ErrorResult("No forecast data available for today.",
                                       location))

(* The upstream outcomes C14 names                                         *)
NetworkFailure == upstream.kind = "exception"
Non2xx == upstream.kind = "response" /\ upstream.status_code \notin 200..299
NonJson == upstream.kind = "response" /\ ~upstream.is_json
Requested == pc \notin {"start", "request"}

(* C14: after a non-2xx response, a network, timeout or connection         *)
(* failure, or a body that is not JSON, the invocation returns an error    *)
(* result (status "error", forecast None, a non-empty error_message, the   *)
(* location as given) and summarizes nothing.                              *)
C14_UpstreamFailureIsError ==
    Requested /\ (NetworkFailure \/ Non2xx \/ NonJson) =>
        /\ pc = "done"
        /\ result.status = "error"
        /\ result.forecast = None
        /\ result.error_message # ""
        /\ result.location = location
        /\ hours = Unset
        /\ NoneSummarized

(* The location is longer than 256 characters, or none of its characters   *)
(* survives the sanitization (the empty string included)                   *)
TooLong == Len(location) > 256
NothingKept == \A i \in 1..Len(location) : location[i] \notin KeptChars
Rejected == TooLong \/ NothingKept

(* C15: for a rejected location the invocation returns an error result     *)
(* with forecast None straight from the validation, and no HTTP request is *)
(* issued at any point of it.                                              *)
C15_RejectedSendsNothing ==
    Rejected =>
        /\ sent = <<>>
        /\ pc \in {"start", "done"}
        /\ pc = "done" =>
              /\ result.status = "error"
              /\ result.forecast = None
              /\ result.error_message =
                    (IF TooLong THEN "Location input is too long."
                     ELSE "Invalid location input.")
(* A non-empty location of which nothing is kept                           *)
C15_Witness ==
    /\ pc = "done"
    /\ location # <<>> /\ ~TooLong /\ NothingKept
    /\ sent = <<>>
    /\ result.error_message = "Invalid location input."

(* The location is empty once its whitespace is trimmed                    *)
BlankLocation == \A i \in 1..Len(location) : location[i] \in Whitespace

(* C16: a location that is empty after trimming whitespace, or longer than *)
(* 256 characters, is rejected with an invalid-input error (and nothing is *)
(* sent); a location of exactly 256 characters is not rejected for its     *)
(* length.                                                                 *)
C16_BlankOrLongRejected ==
    /\ BlankLocation \/ TooLong =>
          /\ sent = <<>>
          /\ pc \in {"start", "done"}
          /\ pc = "done" =>
                /\ result.status = "error"
                /\ result.error_message \in {"Invalid location input.",
                                              "Location input is too long."}
    /\ Len(location) = 256 /\ pc = "done" /\ result.status = "error" =>
          result.error_message # "Location input is too long."

(* The characters C17 allows, and a location stripped of all others        *)
AllowedChars == Letters \cup Digits \cup {" ", ",", "'", ".", "-"}
Stripped(loc) ==
    LET Allowed(c) == c \in AllowedChars
    IN SelectSeq(loc, Allowed)

(* C17: the location sent in the request is the caller's location without  *)
(* the characters outside letters, digits, space, comma, apostrophe,       *)
(* period and hyphen, so it holds only such characters; a location of      *)
(* which nothing remains is treated as invalid input.                      *)
C17_SentIsStripped ==
    /\ \A k \in 1..Len(sent) :
          /\ sent[k].params.location = Stripped(location)
          /\ \A i \in 1..Len(sent[k].params.location) :
                sent[k].params.location[i] \in AllowedChars
    /\ Stripped(location) = <<>> /\ ~TooLong =>
          /\ sent = <<>>
          /\ pc = "done" => result.error_message = "Invalid location input."

C19_SilentProviderEnds ==
    (upstream.kind = "silent" /\ ~Rejected) ~> (pc = "done" /\ result.status = "error")

(* C20: whenever the invocation returns, with success or with any error,   *)
(* the location field of the result is the caller's location, character    *)
(* for character, and not the sanitized string that was sent.              *)
C20_LocationEchoed ==
    pc = "done" =>
        /\ result.location = location
        /\ Len(result.location) = Len(location)
(* A success whose sent location differs from the caller's                 *)
C20_Witness ==
    /\ pc = "done"
    /\ result.status = "success"
    /\ Len(sent) = 1
    /\ sent[1].params.location # location
    /\ result.location = location

(* C21: every returned result has one of two shapes: status "success" with *)
(* a non-empty forecast string and no error_message, or status "error"     *)
(* with forecast None and a non-empty error_message; never both a forecast *)
(* text and an error_message, never neither.                               *)
C21_TwoShapes ==
    pc = "done" =>
        \/ /\ result.status = "success"
           /\ DOMAIN result = {"status", "forecast", "location"}
           /\ result.forecast.t = "str"
           /\ Truthy(result.forecast)
        \/ /\ result.status = "error"
           /\ DOMAIN result = {"status", "error_message", "location", "forecast"}
           /\ result.forecast = None
           /\ result.error_message # ""
(* The error result of a request that timed out                            *)
C21_Witness ==
    /\ pc = "done"
    /\ NetworkFailure /\ upstream.exc = "Timeout"
    /\ result.status = "error"
    /\ result.forecast = None
    /\ result.error_message = "Request timed out"

(* The clause of window w, from the averages summarize_period computed     *)
Clause(w) ==
    WindowLabel(w) \o ": Avg " \o ToString(periods[w].avg_temp) \o "F, "
        \o ToString(periods[w].avg_prec) \o "% rain chance, " \o periods[w].cloud_desc
WindowOrder == <<"morning", "afternoon", "evening">>
PresentWindows ==
    LET Present(w) == Eligible(w) # {}
    IN SelectSeq(WindowOrder, Present)
Clauses == [k \in 1..Len(PresentWindows) |-> Clause(PresentWindows[k])]

(* C22: on success the forecast text is "Today's forecast - ", then one    *)
(* clause for exactly each window with an eligible observation, in the     *)
(* order Morning, Afternoon, Evening whatever the order of the entries,    *)
(* joined by ". " and ended by one period; a clause is the window's label, *)
(* ": ", and "Avg {t}F, {p}% rain chance, {descriptor}".                   *)
C22_ForecastText ==
    pc = "done" /\ result.status = "success" =>
        /\ HoursIsList
        /\ \A w \in Windows : HasAverages(w) <=> Eligible(w) # {}
        /\ PresentWindows # <<>>
        /\ result.forecast =
              JStr("Today's forecast - " \o Join(Clauses, ". ") \o ".")
(* The sample response with its entries in reverse order                   *)
C22_Witness ==
    /\ pc = "done"
    /\ result.status = "success"
    /\ NumItems = Len(SampleHours)
    /\ 1 \in Eligible("evening")
    /\ NumItems \in Eligible("morning")
    /\ PresentWindows = WindowOrder

(* Entry i is not an observation of today between 8:00 and 22:00           *)
DayHours == 8..21
Ineligible(i) == ~(OfToday(i) /\ HourOf(i) \in DayHours)

(* C28: the result depends only on the entries whose local date is today   *)
(* and whose local hour is in [8, 22): a non-empty list and the (non-      *)
(* empty) list without one of its other entries give the same result,      *)
(* whatever that entry holds.                                              *)
C28_OnlyEligibleMatter ==
    Finished /\ HoursIsList /\ TodayRead /\ NumItems >= 2 =>
        \A i \in 1..NumItems : Ineligible(i) =>
            Outcome = FromHours(JList(RemoveAt(hours.items, i)), local_tz,
                                today_local.day, location)

(* A credential of letters, digits and underscores only, 32 or more        *)
WellFormedKey(k) ==
    /\ Len(k) >= 32
    /\ \A i \in 1..Len(k) : k[i] \in Letters \cup Digits \cup {"_"}

(* C25: the credential is checked when the settings object is constructed, *)
(* at import: construction succeeds only for a credential of letters,      *)
(* digits and underscores, at least 32 of them; no request carries a       *)
(* credential that fails this, and no call starts after a failed           *)
(* construction.                                                           *)
C25_CredentialChecked ==
    /\ settings # Unset => WellFormedKey(settings.tomorrow_io_api_key)
    /\ \A k \in 1..Len(sent) : WellFormedKey(sent[k].params.apikey)
    /\ pc \notin {"import", "import_error"} => settings # Unset

(* The settings with another credential in place of the one in use         *)
OtherCredentials == {Repeat("a", 32)}
WithCredential(k) == [settings EXCEPT !.tomorrow_io_api_key = k]

(* C26: the returned result does not depend on the credential: the same    *)
(* call with another credential in the settings returns the same dict, so  *)
(* no error_message holds the credential or the URL that carries it.       *)
C26_ResultHidesCredential ==
    pc = "done" =>
        \A k \in OtherCredentials :
            Ok(result) = get_tmrw_weather_tool(location, upstream, local_tz, now,
                                               WithCredential(k))

(* C23: a second call with the same location, the same upstream response   *)
(* and the same local today and timezone ends as the first did, with an    *)
(* identical result: the first call leaves nothing behind that changes the *)
(* second.                                                                 *)
C23_SecondCallSame ==
    previous # Unset =>
        /\ settings = TheSettings
        /\ Finished => Outcome = previous.outcome
(* Two successes of three clauses                                          *)
C23_Witness ==
    /\ previous # Unset
    /\ pc = "done"
    /\ result.status = "success"
    /\ PresentWindows = WindowOrder
    /\ previous.outcome = Ok(result)

(* How the invocation of frame f ended, and how it ends when it runs alone *)
FrameOutcome(f) == IF f.pc = "raised" THEN Raise(f.exception.type) ELSE Ok(f.result)
Alone(f) == get_tmrw_weather_tool(f.location, f.upstream, local_tz, now, TheSettings)

(* C24: in every interleaving of the steps of two invocations, each        *)
(* invocation ends as it would have ended running alone with the same      *)
(* argument and upstream response, and the settings object is never        *)
(* modified.                                                               *)
C24_Independent ==
    /\ settings = TheSettings
    /\ \A f \in {Frame, other} :
          f.pc \in {"done", "raised"} => FrameOutcome(f) = Alone(f)
(* Both invocations over, one with a forecast and one with an error, for   *)
(* different locations                                                     *)
C24_Witness ==
    /\ pc = "done" /\ other.pc = "done"
    /\ location # other.location
    /\ result.status = "success" /\ other.result.status = "error"
    /\ other.sent # <<>>

WindowRange(w) ==
    CASE w = "morning"   -> morning_hours
      [] w = "afternoon" -> afternoon_hours
      [] w = "evening"   -> evening_hours
(* The date in use: read once the response is there, before any window is  *)
(* summarized, and every summary made so far is the summary for that date  *)
OneDateInUse ==
    /\ today_local # Unset =>
          Received /\ hours # Unset /\ pc \notin {"start", "request", "extract", "today"}
    /\ \A w \in Windows : Done(w) =>
          /\ today_local # Unset
          /\ Ok(periods[w]) =
                summarize_period(hours, WindowRange(w), local_tz, today_local.day)

(* C29: within one invocation the local date is read once, after the       *)
(* response has been received and before the first window is summarized,   *)
(* and never again: the three windows are filtered against that one date   *)
(* even if the clock passes midnight while the call is running.            *)
C29_OneDate ==
    /\ []OneDateInUse
    /\ [][today_local # Unset => today_local' = today_local]_vars
(* Midnight has passed during a call that summarized two windows           *)
C29_Witness ==
    /\ pc = "done"
    /\ result.status = "success"
    /\ HasAverages("morning") /\ HasAverages("evening")
    /\ LocalDate(now, local_tz) = today_local.day + 1

(* The history of the chat, and the role its k-th entry has when entries   *)
(* alternate after the welcome message                                     *)
Messages == session_state.messages
RoleAt(k) == IF k % 2 = 0 THEN "user" ELSE "assistant"

(* C27: a run that handles a prompt appends the user's message and then   *)
(* the assistant's reply, and a run without a prompt appends nothing: the  *)
(* history is the welcome message followed by strictly alternating user    *)
(* and assistant entries.                                                  *)
C27_AlternatingHistory ==
    /\ Messages[1] = Welcome
    /\ \A k \in 2..Len(Messages) : Messages[k].role = RoleAt(k)

====
